---- MODULE Spec2Model ----
(***************************************************************************)
(* Model of p4.py: a Flask user service over a SQL table (the Record       *)
(* Store) fronted by a Redis cache with a fixed expiry (the Cache Layer).  *)
(* Every request handler is split at its calls to the store and to the     *)
(* cache, so that requests served by different threads interleave there.   *)
(***************************************************************************)
EXTENDS Integers, Sequences, FiniteSets, TLC

\* ------------------------------------------------------------------ bounds
MaxUsers == 2          \* ids the uuid generator hands out
MaxReqs == 2           \* requests a behaviour starts
MaxTime == 320         \* last instant of the clock
TickLen == 150         \* seconds between two observed instants

\* ------------------------------------------------------- program constants
CACHE_TIMEOUT == 300

Ids == 1..MaxUsers

\* a user_id in a URL that no user was ever given
NoSuchId == 0
\* the server's threads
Threads == {1, 2}

\* ------------------------------------------------------------- JSON values
\* A decoded JSON value: t is its Python type, n its numeric value (True is
\* 1, False is 0), s its text when it is a string.
JAbsent == [t |-> "absent", n |-> 0, s |-> ""]
JNull == [t |-> "null", n |-> 0, s |-> ""]
JInt(i) == [t |-> "int", n |-> i, s |-> ""]
JBool(b) == [t |-> "bool", n |-> IF b THEN 1 ELSE 0, s |-> ""]
JStr(str) == [t |-> "str", n |-> 0, s |-> str]
\* the float i.0
JFloat(i) == [t |-> "float", n |-> i, s |-> ""]

Fields == {"name", "email", "age"}

\* k in data
Has(data, k) == data[k].t # "absent"

\* not data: the body is missing or is the empty object
Falsy(data) == \A k \in Fields : ~Has(data, k)

\* ---------------------------------------------------------------- strings
\* the names and emails requests carry
Al == "Al"
Xn == "X"
E1 == "a@b\\.c"
E2 == "x@y\\zw"
Dotted == "a@b.c"
NotAnEmail == "not-an-email"

\* the characters of a string, one by one
Chars(str) ==
    CASE str = "" -> << >>
      [] str = Al -> <<"A", "l">>
      [] str = Xn -> <<"X">>
      [] str = E1 -> <<"a", "@", "b", "\\", ".", "c">>
      [] str = E2 -> <<"x", "@", "y", "\\", "z", "w">>
      [] str = Dotted -> <<"a", "@", "b", ".", "c">>
      [] str = NotAnEmail ->
             <<"n", "o", "t", "-", "a", "n", "-", "e", "m", "a", "i", "l">>

\* --------------------------------------------------------- character sets
Lower == {"a", "b", "c", "d", "e", "f", "g", "h", "i", "j", "k", "l", "m",
          "n", "o", "p", "q", "r", "s", "t", "u", "v", "w", "x", "y", "z"}
Upper == {"A", "B", "C", "D", "E", "F", "G", "H", "I", "J", "K", "L", "M",
          "N", "O", "P", "Q", "R", "S", "T", "U", "V", "W", "X", "Y", "Z"}
Digit == {"0", "1", "2", "3", "4", "5", "6", "7", "8", "9"}
AlNum == Lower \cup Upper \cup Digit
LocalCls == AlNum \cup {"_", ".", "+", "-"}      \* [a-zA-Z0-9_.+-]
HostCls == AlNum \cup {"-"}                      \* [a-zA-Z0-9-]
TailCls == AlNum \cup {"-", "."}                 \* [a-zA-Z0-9-.]

\* every character of cs[a..b] is in cls, and the range is not empty
Run(cs, a, b, cls) == a <= b /\ \A i \in a..b : cs[i] \in cls

\* The pattern of is_valid_email as the regex engine reads it: in the raw
\* string the two backslashes are an escaped backslash, and the dot after
\* them is the wildcard (any character but a newline).
PatternMatches(cs, n) ==
    \E p \in 2..n : \E q \in (p + 2)..n :
        /\ cs[p] = "@"
        /\ Run(cs, 1, p - 1, LocalCls)
        /\ Run(cs, p + 1, q - 1, HostCls)
        /\ cs[q] = "\\"
        /\ q + 2 <= n
        /\ cs[q + 1] # "\n"
        /\ Run(cs, q + 2, n, TailCls)

\* re.match(pattern, email) is not None; $ also matches before a final
\* newline.
is_valid_email(email) ==
    LET cs == Chars(email)
    IN \/ PatternMatches(cs, Len(cs))
       \/ /\ Len(cs) > 0
          /\ cs[Len(cs)] = "\n"
          /\ PatternMatches(cs, Len(cs) - 1)

\* isinstance(v, int): bool is a subclass of int
IsInstanceInt(v) == v.t \in {"int", "bool"}

\* not isinstance(age, int) or age <= 0
AgeRejected(v) == ~IsInstanceInt(v) \/ v.n <= 0

\* ------------------------------------------------------------ request data
Body(n, e, a) == [name |-> n, email |-> e, age |-> a]

\* bodies sent to POST /users: complete ones, and one for each way the
\* request can be wrong
CreateBodies ==
    {Body(JStr(Al), JStr(E1), JInt(1)),
     Body(JStr(Al), JStr(E2), JInt(30)),
     Body(JStr(Al), JStr(E2), JBool(TRUE)),
     Body(JStr(""), JStr(E1), JInt(1)),
     Body(JStr(Al), JStr(Dotted), JInt(1)),
     Body(JStr(Al), JStr(E1), JInt(0)),
     Body(JStr(Al), JStr(E1), JInt(-5)),
     Body(JStr(Al), JStr(E1), JBool(FALSE)),
     Body(JStr(Al), JStr(E1), JFloat(30)),
     Body(JStr(Al), JStr(E1), JAbsent),
     Body(JAbsent, JAbsent, JAbsent)}

\* bodies sent to PUT /users/<user_id>: one field, two fields of which the
\* second is wrong, and none
UpdateBodies ==
    {Body(JStr(Xn), JAbsent, JAbsent),
     Body(JAbsent, JAbsent, JInt(30)),
     Body(JAbsent, JStr(E2), JAbsent),
     Body(JNull, JAbsent, JAbsent),
     Body(JStr(Xn), JStr(NotAnEmail), JAbsent),
     Body(JStr(Xn), JStr(E2), JInt(0)),
     Body(JAbsent, JStr(Dotted), JAbsent),
     Body(JAbsent, JAbsent, JBool(TRUE)),
     Body(JAbsent, JAbsent, JInt(0)),
     Body(JAbsent, JAbsent, JAbsent)}

\* the bodies that reach two threads at once: the ones whose store and
\* cache steps can race
RaceCreateBodies ==
    {Body(JStr(Al), JStr(E1), JInt(1)),
     Body(JStr(Al), JStr(E2), JInt(30))}

RaceUpdateBodies ==
    {Body(JStr(Xn), JAbsent, JAbsent),
     Body(JAbsent, JAbsent, JInt(30)),
     Body(JAbsent, JStr(E2), JAbsent)}

NoBody == [name |-> JAbsent, email |-> JAbsent, age |-> JAbsent]

\* ------------------------------------------------------------------- rows
\* A row of the users table, and the same shape for "no row".
NoEnt == [id |-> 0, name |-> "", email |-> "", age |-> 0]

\* The mapped object of a session: attribute values as the handler set them.
NoObj == [id |-> 0, name |-> JAbsent, email |-> JAbsent, age |-> JAbsent]

\* The value a column takes from an attribute value (String keeps the text,
\* Integer keeps the number: True is stored as 1).
ColVal(k, v) == IF k = "age" THEN v.n ELSE v.s

\* The attribute values of a loaded row.
FromRow(r) ==
    [id |-> r.id, name |-> JStr(r.name), email |-> JStr(r.email),
     age |-> JInt(r.age)]

ToRow(o) ==
    [id |-> o.id, name |-> ColVal("name", o.name),
     email |-> ColVal("email", o.email), age |-> ColVal("age", o.age)]

\* nullable=False on every column
NotNullViolated(o) == \E k \in Fields : o[k].t = "null"

\* a table without the unique index on email
UniqueViolated_off(st, id, email) == FALSE

\* unique=True on email: another row holds this email
UniqueViolated(st, id, email) ==
    \E i \in DOMAIN st : i # id /\ st[i].email = email

\* a rollback that keeps what the failed transaction wrote
Rollback_none(before, written) == written

\* db.session.rollback(): what the failed transaction wrote is undone
Rollback(before, written) == before

\* a DELETE that removes nothing
DeleteRow_none(st, id) == st

\* DELETE FROM user WHERE id = ?: a missing row is not an error
DeleteRow(st, id) == [x \in DOMAIN st \ {id} |-> st[x]]

\* ------------------------------------------------------------------ cache
\* an encoder that writes the name under every text key
JsonDumps_garbled(d) ==
    << <<"id", d.id>>, <<"name", d.name>>, <<"email", d.name>>,
       <<"age", d.age>> >>

\* json.dumps of the four-key dict, and json.loads of that text
JsonDumps(d) ==
    << <<"id", d.id>>, <<"name", d.name>>, <<"email", d.email>>,
       <<"age", d.age>> >>

JsonGet(txt, k) == txt[CHOOSE i \in 1..Len(txt) : txt[i][1] = k][2]

\* a decoder that confuses two keys
JsonLoads_swapped(txt) ==
    [id |-> JsonGet(txt, "id"), name |-> JsonGet(txt, "email"),
     email |-> JsonGet(txt, "name"), age |-> JsonGet(txt, "age")]

JsonLoads(txt) ==
    [id |-> JsonGet(txt, "id"), name |-> JsonGet(txt, "name"),
     email |-> JsonGet(txt, "email"), age |-> JsonGet(txt, "age")]

\* the dict built from a loaded object
UserData(u) == [id |-> u.id, name |-> u.name, email |-> u.email, age |-> u.age]

Put(f, k, v) == [x \in DOMAIN f \cup {k} |-> IF x = k THEN v ELSE f[x]]
Drop(f, k) == [x \in DOMAIN f \ {k} |-> f[x]]

\* a setex that grants twice the time to live
Setex_long(c, k, ttl, txt, t) == Put(c, k, [val |-> txt, exp |-> t + ttl + ttl])

\* redis setex: the value with its expiry instant
Setex(c, k, ttl, txt, t) == Put(c, k, [val |-> txt, exp |-> t + ttl])

\* a delete that leaves the key
RedisDelete_noop(c, k) == c

\* redis delete: removing an absent key is a no-op
RedisDelete(c, k) == Drop(c, k)

\* a cache that never drops a key
Expire_never(c, t) == c

\* redis expiry: a key is gone once its time to live has run out
Expire(c, t) == [k \in {x \in DOMAIN c : c[x].exp > t} |-> c[k]]

\* ------------------------------------------------------------------ state
VARIABLES
    store,      \* the users table: id -> row
    cache,      \* redis: id -> [val, exp]
    now,        \* the clock
    nextId,     \* the next id uuid4 hands out
    nreq,       \* requests started so far
    serial,     \* TRUE: the server handles one request at a time
    thr,        \* each server thread's request in progress
    last,       \* the request that ended most recently, with its response
    faulty      \* TRUE once a call to the store or to the cache has failed

vars == <<store, cache, now, nextId, nreq, serial, thr, last, faulty>>

IdleThr ==
    [pc |-> "idle", op |-> "none", id |-> 0, body |-> NoBody,
     orig |-> NoEnt, obj |-> NoObj, status |-> 0, err |-> "",
     out |-> NoEnt, list |-> {}, touched |-> {}, hit |-> FALSE,
     fault |-> "none"]

\* a row an earlier run of the service left in the table
Seeded == [id |-> 1, name |-> Al, email |-> E1, age |-> 1]

\* the service starts on the table it is pointed at, empty or holding a
\* user from an earlier run, and on an empty cache
Init0 ==
    /\ \/ store = << >> /\ nextId = 1
       \/ store = [i \in {1} |-> Seeded] /\ nextId = 2
    /\ cache = << >>
    /\ now = 0
    /\ nreq = 0
    /\ thr = [w \in Threads |-> IdleThr]
    /\ last = IdleThr
    /\ faulty = FALSE

Init == Init0 /\ serial = FALSE

InitSerial == Init0 /\ serial = TRUE

\* a request may start on thread w: the first free thread takes it
CanStart(w) ==
    /\ thr[w].pc = "idle"
    /\ \A v \in Threads : v < w => thr[v].pc # "idle"
    /\ nreq < MaxReqs
    /\ serial => \A v \in Threads : thr[v].pc = "idle"

\* what is kept of an ended request when threads run side by side: its
\* outcome, not the data it carried
Outcome(r) ==
    [r EXCEPT !.body = NoBody, !.out = NoEnt, !.list = {}]

\* thread w's request ends with this response, and the thread is free again
Respond(w, r, status, err, out) ==
    /\ thr' = [thr EXCEPT ![w] = IdleThr]
    /\ LET done == [r EXCEPT !.pc = "done", !.status = status, !.err = err,
                             !.out = out, !.orig = NoEnt,
                             !.obj = NoObj]
       IN last' = IF serial THEN done ELSE Outcome(done)
    /\ faulty' = (faulty \/ r.fault # "none")

\* the store or the cache failed under thread w's request (a lost
\* connection, a timeout): what is an exception raised in the handler
Fault(r, what) == [r EXCEPT !.fault = what]

Goto(w, r, pc) ==
    /\ thr' = [thr EXCEPT ![w] = [r EXCEPT !.pc = pc]]
    /\ last' = last
    /\ faulty' = faulty

\* the record of a request that starts now
Begin(op, id, body) ==
    [IdleThr EXCEPT !.op = op, !.id = id, !.body = body]

Touch(r, what) == [r EXCEPT !.touched = @ \cup {what}]

\* -------------------------------------------------------------- POST /users
\* the checks of create_user before the User object is built; "" = passed
CreateValidate(data) ==
    IF Falsy(data) \/ \E k \in Fields : ~Has(data, k) THEN "Missing fields"
    ELSE IF ~is_valid_email(data.email.s) THEN "Invalid email"
    ELSE IF AgeRejected(data.age) THEN "Age must be a positive integer"
    ELSE ""

\* lines 38-46: decode, validate, build the User with a fresh uuid
CreateReq(w, data) ==
    /\ CanStart(w)
    /\ nreq' = nreq + 1
    /\ LET r == Begin("create", 0, data)
           e == CreateValidate(data)
       IN IF e # ""
          THEN /\ Respond(w, r, 400, e, NoEnt)
               /\ nextId' = nextId
          ELSE /\ nextId <= MaxUsers
               /\ nextId' = nextId + 1
               /\ Goto(w, [r EXCEPT !.id = nextId,
                                     !.obj = [id |-> nextId,
                                              name |-> data.name,
                                              email |-> data.email,
                                              age |-> data.age]],
                              "c_commit")
    /\ UNCHANGED <<store, cache, now, serial>>

\* lines 48-49 and 52-57: INSERT and COMMIT, or the rollback of a failure
CreateCommit(w) ==
    /\ thr[w].pc = "c_commit"
    /\ LET r == Touch(thr[w], "store")
       IN \/ /\ ~NotNullViolated(r.obj)
             /\ ~UniqueViolated(store, r.id, ColVal("email", r.obj.email))
             /\ store' = Put(store, r.id, ToRow(r.obj))
             /\ Goto(w, r, "c_load")
          \/ /\ NotNullViolated(r.obj)
                \/ UniqueViolated(store, r.id, ColVal("email", r.obj.email))
             /\ store' = store
             /\ Respond(w, r, 400, "Email already exists", NoEnt)
          \/ /\ store' = Rollback(store, Put(store, r.id, ToRow(r.obj)))
             /\ Respond(w, Fault(r, "store"), 500, "Database error", NoEnt)
    /\ UNCHANGED <<cache, now, nextId, nreq, serial>>

\* line 50, user.id: the commit expired the object, so its attributes are
\* read back from the table; a row deleted meanwhile raises
\* ObjectDeletedError, which the SQLAlchemyError handler catches
CreateLoad(w) ==
    /\ thr[w].pc = "c_load"
    /\ LET r == thr[w]
       IN IF r.id \in DOMAIN store
          THEN Goto(w, [r EXCEPT !.out = UserData(store[r.id])],
                           "c_cache")
          ELSE Respond(w, r, 500, "Database error", NoEnt)
    /\ UNCHANGED <<store, cache, now, nextId, nreq, serial>>

\* lines 50-51: setex, then the 201; a redis error is caught by no handler
CreateCache(w) ==
    /\ thr[w].pc = "c_cache"
    /\ LET r == Touch(thr[w], "cache")
       IN \/ /\ cache' = Setex(cache, r.id, CACHE_TIMEOUT,
                               JsonDumps(r.out), now)
             /\ Respond(w, r, 201, "", r.out)
          \/ /\ cache' = cache
             /\ Respond(w, Fault(r, "cache"), 500, "Internal Server Error",
                        NoEnt)
    /\ UNCHANGED <<store, now, nextId, nreq, serial>>

\* ------------------------------------------------------ GET /users/<user_id>
\* a probe whose hit renews the entry's time to live
GetProbe_refresh(w, id) ==
    /\ CanStart(w)
    /\ nreq' = nreq + 1
    /\ LET r == Touch(Begin("get", id, NoBody), "cache")
       IN \/ IF id \in DOMAIN cache
             THEN /\ Respond(w, [r EXCEPT !.hit = TRUE], 200, "",
                                 JsonLoads(cache[id].val))
                  /\ cache' = Setex(cache, id, CACHE_TIMEOUT, cache[id].val,
                                    now)
             ELSE /\ Goto(w, r, "g_read")
                  /\ cache' = cache
          \/ /\ Respond(w, Fault(r, "cache"), 500, "Internal Server Error",
                        NoEnt)
             /\ cache' = cache
    /\ UNCHANGED <<store, now, nextId, serial>>

\* lines 61-63: redis get; a hit is decoded and returned
GetProbe(w, id) ==
    /\ CanStart(w)
    /\ nreq' = nreq + 1
    /\ LET r == Touch(Begin("get", id, NoBody), "cache")
       IN \/ IF id \in DOMAIN cache
             THEN Respond(w, [r EXCEPT !.hit = TRUE], 200, "",
                                 JsonLoads(cache[id].val))
             ELSE Goto(w, r, "g_read")
          \/ Respond(w, Fault(r, "cache"), 500, "Internal Server Error",
                        NoEnt)
    /\ UNCHANGED <<store, cache, now, nextId, serial>>

\* a read that caches the absence of the row
GetRead_cachesMiss(w) ==
    /\ thr[w].pc = "g_read"
    /\ LET r == Touch(thr[w], "store")
       IN IF r.id \in DOMAIN store
          THEN /\ Goto(w, [r EXCEPT !.out = UserData(store[r.id])], "g_fill")
               /\ cache' = cache
          ELSE /\ Respond(w, r, 404, "User not found", NoEnt)
               /\ cache' = Setex(cache, r.id, CACHE_TIMEOUT,
                                 JsonDumps(NoEnt), now)
    /\ UNCHANGED <<store, now, nextId, nreq, serial>>

\* lines 65-69: the SELECT of the four columns
GetRead(w) ==
    /\ thr[w].pc = "g_read"
    /\ LET r == Touch(thr[w], "store")
       IN IF r.id \in DOMAIN store
          THEN Goto(w, [r EXCEPT !.out = UserData(store[r.id])],
                           "g_fill")
          ELSE Respond(w, r, 404, "User not found", NoEnt)
    /\ UNCHANGED <<store, cache, now, nextId, nreq, serial>>

\* lines 70-71: setex of the row that was read, then the 200
GetFill(w) ==
    /\ thr[w].pc = "g_fill"
    /\ LET r == thr[w]
       IN \/ /\ cache' = Setex(cache, r.id, CACHE_TIMEOUT,
                               JsonDumps(r.out), now)
             /\ Respond(w, r, 200, "", r.out)
          \/ /\ cache' = cache
             /\ Respond(w, Fault(r, "cache"), 500, "Internal Server Error",
                        NoEnt)
    /\ UNCHANGED <<store, now, nextId, nreq, serial>>

\* ------------------------------------------------------ PUT /users/<user_id>
\* lines 83-92 on the loaded object: the first rejected field, "" = none
UpdateValidate(data) ==
    IF Has(data, "email") /\ ~is_valid_email(data.email.s)
    THEN "Invalid email"
    ELSE IF Has(data, "age") /\ AgeRejected(data.age)
    THEN "Age must be a positive integer"
    ELSE ""

\* an update that assigns every field, present or not
UpdateApply_all(o, data) ==
    [id |-> o.id, name |-> data.name, email |-> data.email, age |-> data.age]

\* lines 83-92: the attributes after every present field was assigned
UpdateApply(o, data) ==
    [id |-> o.id,
     name |-> IF Has(data, "name") THEN data.name ELSE o.name,
     email |-> IF Has(data, "email") THEN data.email ELSE o.email,
     age |-> IF Has(data, "age") THEN data.age ELSE o.age]

\* lines 83-92 of a rejected update: the attributes assigned before the
\* return (name, and email when it is the age that is rejected)
UpdatePartial(o, data) ==
    [id |-> o.id,
     name |-> IF Has(data, "name") THEN data.name ELSE o.name,
     email |-> IF Has(data, "email") /\ is_valid_email(data.email.s)
               THEN data.email ELSE o.email,
     age |-> o.age]

\* a request end that flushes the session's pending assignments
SessionRemove_flush(st, id, obj) == [st EXCEPT ![id] = ToRow(obj)]

\* lines 87 and 91, return without commit: the request's session is removed
\* with its pending assignments, nothing is flushed
SessionRemove(st, id, obj) == st

\* lines 75-92: decode, load the row, assign and validate field by field.
\* A rejected field returns at once; the session with the assignments made
\* so far is discarded when the request ends, without a flush.
UpdateReq(w, id, data) ==
    /\ CanStart(w)
    /\ nreq' = nreq + 1
    /\ LET r == Begin("update", id, data)
           rs == Touch(r, "store")
       IN IF Falsy(data)
          THEN Respond(w, r, 400, "No data provided", NoEnt)
          ELSE IF id \notin DOMAIN store
          THEN Respond(w, rs, 404, "User not found", NoEnt)
          ELSE IF UpdateValidate(data) # ""
          THEN Respond(w, rs, 400, UpdateValidate(data), NoEnt)
          ELSE Goto(w, [rs EXCEPT !.orig = store[id],
                                  !.obj = UpdateApply(FromRow(store[id]),
                                                      data)],
                           "u_commit")
    /\ store' = IF ~Falsy(data) /\ id \in DOMAIN store
                   /\ UpdateValidate(data) # ""
                THEN SessionRemove(store, id,
                                   UpdatePartial(FromRow(store[id]), data))
                ELSE store
    /\ UNCHANGED <<cache, now, nextId, serial>>

\* the columns whose attribute differs from the loaded value: the flush
\* writes these and no others
Dirty(orig, obj) ==
    {k \in Fields : obj[k].t = "null" \/ ColVal(k, obj[k]) # orig[k]}

\* the row after UPDATE ... SET of the dirty columns
Written(row, obj, dirty) ==
    [k \in DOMAIN row |-> IF k \in dirty THEN ColVal(k, obj[k]) ELSE row[k]]

\* lines 95 and 98-103: flush and COMMIT, or the rollback of a failure.
\* An UPDATE that matches no row raises StaleDataError.
UpdateCommit(w) ==
    /\ thr[w].pc = "u_commit"
    /\ LET r == thr[w]
           dirty == Dirty(r.orig, r.obj)
           gone == dirty # {} /\ r.id \notin DOMAIN store
           integrity ==
               /\ dirty # {}
               /\ r.id \in DOMAIN store
               /\ \/ NotNullViolated(r.obj)
                  \/ /\ "email" \in dirty
                     /\ UniqueViolated(store, r.id,
                                       ColVal("email", r.obj.email))
           flushed ==
               IF dirty = {} \/ gone THEN store
               ELSE [store EXCEPT ![r.id] = Written(@, r.obj, dirty)]
       IN \/ /\ ~gone
             /\ ~integrity
             /\ store' = flushed
             /\ Goto(w, r, "u_load")
          \/ /\ integrity
             /\ store' = store
             /\ Respond(w, r, 400, "Email already exists", NoEnt)
          \/ /\ gone
             /\ store' = store
             /\ Respond(w, r, 500, "Database error", NoEnt)
          \/ /\ store' = Rollback(store, flushed)
             /\ Respond(w, Fault(r, "store"), 500, "Database error", NoEnt)
    /\ UNCHANGED <<cache, now, nextId, nreq, serial>>

\* line 96, user.id: the expired object is read back from the table
UpdateLoad(w) ==
    /\ thr[w].pc = "u_load"
    /\ LET r == thr[w]
       IN IF r.id \in DOMAIN store
          THEN Goto(w, [r EXCEPT !.out = UserData(store[r.id])],
                           "u_cache")
          ELSE Respond(w, r, 500, "Database error", NoEnt)
    /\ UNCHANGED <<store, cache, now, nextId, nreq, serial>>

\* lines 96-97: redis delete, then the 200
UpdateCache(w) ==
    /\ thr[w].pc = "u_cache"
    /\ LET r == Touch(thr[w], "cache")
       IN \/ /\ cache' = RedisDelete(cache, r.id)
             /\ Respond(w, r, 200, "", r.out)
          \/ /\ cache' = cache
             /\ Respond(w, Fault(r, "cache"), 500, "Internal Server Error",
                        NoEnt)
    /\ UNCHANGED <<store, now, nextId, nreq, serial>>

\* --------------------------------------------------- DELETE /users/<user_id>
\* lines 107-111: load the row and mark it deleted in the session
DeleteReq(w, id) ==
    /\ CanStart(w)
    /\ nreq' = nreq + 1
    /\ LET r == Touch(Begin("delete", id, NoBody), "store")
       IN IF id \notin DOMAIN store
          THEN Respond(w, r, 404, "User not found", NoEnt)
          ELSE Goto(w, [r EXCEPT !.orig = store[id]], "d_commit")
    /\ UNCHANGED <<store, cache, now, nextId, serial>>

\* lines 113 and 116-118: DELETE and COMMIT, or the rollback of a failure.
\* A DELETE that matches no row only warns.
DeleteCommit(w) ==
    /\ thr[w].pc = "d_commit"
    /\ LET r == thr[w]
       IN \/ /\ store' = DeleteRow(store, r.id)
             /\ Goto(w, r, "d_cache")
          \/ /\ store' = Rollback(store, DeleteRow(store, r.id))
             /\ Respond(w, Fault(r, "store"), 500, "Database error", NoEnt)
    /\ UNCHANGED <<cache, now, nextId, nreq, serial>>

\* lines 114-115: redis delete, then the 200
DeleteCache(w) ==
    /\ thr[w].pc = "d_cache"
    /\ LET r == Touch(thr[w], "cache")
       IN \/ /\ cache' = RedisDelete(cache, r.id)
             /\ Respond(w, r, 200, "", NoEnt)
          \/ /\ cache' = cache
             /\ Respond(w, Fault(r, "cache"), 500, "Internal Server Error",
                        NoEnt)
    /\ UNCHANGED <<store, now, nextId, nreq, serial>>

\* ---------------------------------------------------------------- GET /users
\* lines 122-123: every row, read from the table
GetAll(w) ==
    /\ CanStart(w)
    /\ nreq' = nreq + 1
    /\ LET r == Touch(Begin("list", 0, NoBody), "store")
       IN Respond(w, [r EXCEPT !.list = {UserData(store[i]) :
                                                   i \in DOMAIN store}],
                         200, "", NoEnt)
    /\ UNCHANGED <<store, cache, now, nextId, serial>>

\* -------------------------------------------------------------- environment
\* time passes; redis drops the keys whose time to live has run out
Tick ==
    /\ now + TickLen <= MaxTime
    /\ now' = now + TickLen
    /\ cache' = Expire(cache, now')
    /\ UNCHANGED <<store, nextId, nreq, serial, thr, last, faulty>>

\* the ids callers put in a URL: one a create has handed out, or one that
\* names nobody (a caller cannot guess the uuid of a later create)
Targets == (1..(nextId - 1)) \cup {NoSuchId}

\* the bodies callers send
Posts == IF serial THEN CreateBodies ELSE RaceCreateBodies

Puts == IF serial THEN UpdateBodies ELSE RaceUpdateBodies

Next ==
    \/ \E w \in Threads : \E data \in Posts : CreateReq(w, data)
    \/ \E w \in Threads : CreateCommit(w)
    \/ \E w \in Threads : CreateLoad(w)
    \/ \E w \in Threads : CreateCache(w)
    \/ \E w \in Threads : \E id \in Targets : GetProbe(w, id)
    \/ \E w \in Threads : GetRead(w)
    \/ \E w \in Threads : GetFill(w)
    \/ \E w \in Threads : \E id \in Targets : \E data \in Puts :
           UpdateReq(w, id, data)
    \/ \E w \in Threads : UpdateCommit(w)
    \/ \E w \in Threads : UpdateLoad(w)
    \/ \E w \in Threads : UpdateCache(w)
    \/ \E w \in Threads : \E id \in Targets : DeleteReq(w, id)
    \/ \E w \in Threads : DeleteCommit(w)
    \/ \E w \in Threads : DeleteCache(w)
    \/ \E w \in Threads : GetAll(w)
    \/ Tick

Spec == Init /\ [][Next]_vars

SeqSpec == InitSerial /\ [][Next]_vars

TypeOK ==
    /\ DOMAIN store \subseteq Ids
    /\ DOMAIN cache \subseteq Ids
    /\ nextId \in 1..(MaxUsers + 1)
    /\ nreq \in 0..MaxReqs

\* ================================================================== claims
AllIdle == \A w \in Threads : thr[w].pc = "idle"

\* a request ends in this step (its record becomes last')
Ended ==
    \/ \E w \in Threads : thr[w].pc # "idle" /\ thr'[w].pc = "idle"
    \/ nreq' = nreq + 1 /\ thr' = thr

\* thread w takes the step that leaves pc
Leaves(w, pc) == thr[w].pc = pc /\ thr'[w].pc # pc

Ok(r, op, status) == r.op = op /\ r.status = status

\* ---- C1
C1_AfterUpdateNoEntry ==
    (AllIdle /\ Ok(last, "update", 200)) => last.id \notin DOMAIN cache

C1_NextGet ==
    (Ended /\ Ok(last, "update", 200) /\ last'.op = "get"
           /\ last'.id = last.id)
    => /\ last'.status = 200 \/ last'.fault = "cache"
       /\ last'.status = 200 =>
            /\ ~last'.hit
            /\ last'.out = last.out
            /\ \A k \in Fields :
                   Has(last.body, k) => last'.out[k] = ColVal(k, last.body[k])

\* C1: with requests served one after another, once an update of an id has
\* returned 200 the cache holds no entry for that id, and a getById of that
\* id that comes next is not answered from the cache and returns the values
\* the update wrote (it fails only if the cache call itself fails).
C1_Invalidation == [](C1_AfterUpdateNoEntry) /\ [][C1_NextGet]_vars

C1_Witness ==
    /\ Ok(last, "get", 200)
    /\ ~last.hit
    /\ last.out.name = Xn
    /\ nreq = 2

\* ---- C2
C2_AfterCreate ==
    (AllIdle /\ Ok(last, "create", 201))
    => /\ last.id \in DOMAIN store
       /\ UserData(store[last.id]) = last.out
       /\ \A k \in Fields : last.out[k] = ColVal(k, last.body[k])
       /\ last.id \in DOMAIN cache =>
            /\ cache[last.id].val = JsonDumps(last.out)
            /\ cache[last.id].exp > now

\* the create's setex gives the entry the full CACHE_TIMEOUT
C2_FullTtl ==
    (Ended /\ Ok(last', "create", 201))
    => cache'[last'.id] = [val |-> JsonDumps(last'.out),
                           exp |-> now + CACHE_TIMEOUT]

\* until the next request the entry stays as written, and it goes only
\* when its time to live has run out
C2_KeptUntilExpiry ==
    (AllIdle /\ Ok(last, "create", 201) /\ last' = last
         /\ last.id \in DOMAIN cache /\ \A w \in Threads : thr'[w].pc = "idle")
    => IF last.id \in DOMAIN cache' THEN cache'[last.id] = cache[last.id]
       ELSE now' >= cache[last.id].exp

C2_NextGet ==
    (Ended /\ Ok(last, "create", 201) /\ last'.op = "get"
           /\ last'.id = last.id)
    => /\ last'.status = 200 \/ last'.fault = "cache"
       /\ last'.status = 200 =>
            /\ last'.out = last.out
            /\ last'.hit => /\ last.id \in DOMAIN cache
                            /\ "store" \notin last'.touched
            /\ ~last'.hit => "store" \in last'.touched

\* C2: with requests served one after another, a create that returned 201
\* leaves the row it returned in the store and its JSON in the cache, with
\* the full CACHE_TIMEOUT to live; a getById of that id that comes next
\* returns the same four values: from the cache, without a store read,
\* while the entry lives, and from the store once it has expired.
C2_RoundTrip ==
    /\ [](C2_AfterCreate)
    /\ [][C2_FullTtl /\ C2_KeptUntilExpiry /\ C2_NextGet]_vars

C2_Witness == Ok(last, "get", 200) /\ last.hit /\ nreq = 2

\* ---- C3
C3_Unique ==
    \A i, j \in DOMAIN store : i # j => store[i].email # store[j].email

C3_DupCreate ==
    \A w \in Threads :
        (/\ Leaves(w, "c_commit")
         /\ UniqueViolated(store, thr[w].id, ColVal("email", thr[w].obj.email)))
        => /\ store' = store
           /\ thr'[w].pc = "idle"
           /\ last'.op = "create"
           /\ \/ last'.fault = "store"
              \/ last'.status = 400 /\ last'.err = "Email already exists"

\* C3: whatever requests interleave, no two rows of the store have the same
\* email; a create whose email a committed row holds when its INSERT runs
\* adds no row, changes no row and returns 400 'Email already exists'
\* (500 only when the store itself fails).
C3_EmailUnique == [](C3_Unique) /\ [][C3_DupCreate]_vars

C3_Witness ==
    /\ Ok(last, "create", 400)
    /\ last.err = "Email already exists"
    /\ last.fault = "none"
    /\ DOMAIN store # {}

\* ---- C4
CommitPcs == {"c_commit", "u_commit", "d_commit"}

C4_NoEarlyCache ==
    \A w \in Threads :
        thr[w].pc \in CommitPcs => "cache" \notin thr[w].touched

C4_FailedCommit ==
    \A w \in Threads :
        (thr[w].pc \in CommitPcs /\ thr'[w].pc = "idle")
        => /\ store' = store
           /\ cache' = cache
           /\ last'.status \in {400, 500}
           /\ "cache" \notin last'.touched

\* C4: a create, update or delete whose commit fails (duplicate email, null
\* column, vanished row or a failure of the store) leaves the store and the
\* cache as they were at that step, and the request has made no cache call
\* before its commit.
C4_FailedCommitNoEffect == [](C4_NoEarlyCache) /\ [][C4_FailedCommit]_vars

C4_Witness ==
    /\ last.fault = "store"
    /\ last.op = "update"
    /\ last.id \in DOMAIN cache
    /\ last.id \in DOMAIN store

\* ---- C5
C5_NotFound ==
    (Ended /\ Ok(last', "get", 404))
    => /\ cache' = cache
       /\ last'.id \notin DOMAIN cache'
       /\ last'.id \notin DOMAIN store

\* C5: with requests served one after another, a getById that misses the
\* cache and finds no row returns 404 without writing the cache, and the
\* cache has no entry for the id right after.
C5_NoNegativeCache == [][C5_NotFound]_vars

C5_Witness == Ok(last, "get", 404) /\ last.touched = {"cache", "store"}

\* ---- C6
C6_AfterDelete ==
    (AllIdle /\ Ok(last, "delete", 200))
    => last.id \notin DOMAIN store /\ last.id \notin DOMAIN cache

C6_First ==
    (Ended /\ last'.op = "delete" /\ last'.status # 200)
    => \/ last'.fault # "none"
       \/ last'.status = 404 /\ last'.id \notin DOMAIN store

C6_Second ==
    (Ended /\ Ok(last, "delete", 200) /\ last'.op = "delete"
           /\ last'.id = last.id)
    => last'.status = 404 /\ store' = store /\ cache' = cache

\* C6: with requests served one after another, a delete of an id that has a
\* row returns 200 unless the store or the cache fails; after the 200
\* neither the store nor the cache has the id; the same delete made next
\* returns 404 and changes neither.
C6_IdempotentDelete ==
    [](C6_AfterDelete) /\ [][C6_First /\ C6_Second]_vars

C6_Witness ==
    /\ AllIdle
    /\ Ok(last, "delete", 200)
    /\ nextId > last.id
    /\ nreq < MaxReqs

\* ---- C7
\* the pattern as the claim states it: local part, '@', host, a literal
\* '.', suffix
ClaimedEmailOK(email) ==
    LET cs == Chars(email)
    IN \E p \in 2..Len(cs) : \E q \in (p + 2)..Len(cs) :
           /\ cs[p] = "@"
           /\ Run(cs, 1, p - 1, LocalCls)
           /\ Run(cs, p + 1, q - 1, HostCls)
           /\ cs[q] = "."
           /\ Run(cs, q + 1, Len(cs), TailCls)

\* the request got as far as its email check
EmailChecked(r) ==
    \/ r.op = "create" /\ \A k \in Fields : Has(r.body, k)
    \/ r.op = "update" /\ Has(r.body, "email") /\ r.status # 404

\* C7: a create or update whose email is checked is rejected with 'Invalid
\* email' exactly when the email does not match the claimed pattern; so
\* "a@b.c" passes and "not-an-email" does not.
C7_EmailPattern ==
    EmailChecked(last) =>
        (last.err = "Invalid email" <=> ~ClaimedEmailOK(last.body.email.s))

\* ---- C8
\* the request got as far as its age check
AgeChecked(r) ==
    \/ /\ r.op = "create"
       /\ \A k \in Fields : Has(r.body, k)
       /\ is_valid_email(r.body.email.s)
    \/ /\ r.op = "update"
       /\ Has(r.body, "age")
       /\ r.status # 404
       /\ Has(r.body, "email") => is_valid_email(r.body.email.s)

\* C8: a create or update whose age is checked is rejected with 'Age must
\* be a positive integer' exactly when the age is not an integer greater
\* than zero; booleans and floats are not integers.
C8_AgeRule ==
    AgeChecked(last) =>
        (last.err = "Age must be a positive integer"
            <=> ~(last.body.age.t = "int" /\ last.body.age.n > 0))

\* ---- C9
C9_Commit ==
    \A w \in Threads :
        (thr[w].pc = "u_commit" /\ thr'[w].pc = "u_load")
        => LET id == thr[w].id
               b == thr[w].body
           IN /\ id \in DOMAIN store
              /\ DOMAIN store' = DOMAIN store
              /\ \A i \in DOMAIN store : i # id => store'[i] = store[i]
              /\ store'[id].id = id
              /\ \A k \in Fields :
                     IF Has(b, k) THEN store'[id][k] = ColVal(k, b[k])
                     ELSE store'[id][k] = store[id][k]

\* C9: with requests served one after another, the commit of an update
\* gives the row the value of every field present in the body and leaves
\* its other fields, its id and every other row as they were.
C9_PartialUpdate == [][C9_Commit]_vars

C9_Witness ==
    /\ Ok(last, "update", 200)
    /\ last.body = Body(JStr(Xn), JAbsent, JAbsent)
    /\ last.out = [id |-> last.id, name |-> Xn, email |-> E1, age |-> 1]

\* ---- C10
\* the request is one that validation rejects
FailsValidation(r) ==
    \/ r.op = "create" /\ CreateValidate(r.body) # ""
    \/ r.op = "update" /\ (Falsy(r.body) \/ UpdateValidate(r.body) # "")

ValidationErrors ==
    {"Missing fields", "No data provided", "Invalid email",
     "Age must be a positive integer"}

\* C10: a create or update that fails validation returns its validation
\* error having read or written neither the store nor the cache; an update
\* with an invalid field for an id that has no row gets the validation
\* error, not 404.
C10_ValidationFirst ==
    FailsValidation(last) =>
        /\ last.status = 400
        /\ last.err \in ValidationErrors
        /\ last.touched = {}

\* ---- C11
\* the request got as far as its commit, and the store did not fail under it
ReachedCommit(r) ==
    /\ r.op \in {"create", "update"}
    /\ ~FailsValidation(r)
    /\ r.status # 404
    /\ r.fault # "store"
    /\ r.status # 0

\* the email the request asks for is held by another row
AsksTakenEmail(r) ==
    /\ Has(r.body, "email")
    /\ UniqueViolated(store, r.id, ColVal("email", r.body.email))

\* C11: with requests served one after another, a create or update that
\* reached its commit gets 'Email already exists' exactly when the email it
\* asks for is held by another row; any other failure of the commit, a null
\* name among them, is not reported as a conflict.
C11_ConflictIffDuplicate ==
    (AllIdle /\ ReachedCommit(last))
    => (last.err = "Email already exists" <=> AsksTakenEmail(last))

\* ---- C12
\* no entry is in the cache at or after its expiry instant, and none has
\* more than CACHE_TIMEOUT left
C12_Entries ==
    \A k \in DOMAIN cache :
        now < cache[k].exp /\ cache[k].exp <= now + CACHE_TIMEOUT

\* an entry appears or changes only by the setex of a create or of a read
\* that missed, and then it expires CACHE_TIMEOUT from now
C12_Written ==
    \A k \in DOMAIN cache' :
        (k \notin DOMAIN cache \/ cache'[k] # cache[k])
        => /\ cache'[k].exp = now + CACHE_TIMEOUT
           /\ \E w \in Threads :
                  /\ thr[w].id = k
                  /\ Leaves(w, "c_cache") \/ Leaves(w, "g_fill")

\* a getById answered from the cache found an entry there and left the
\* cache as it was; so one that finds no entry is not answered from it
C12_Hit ==
    (nreq' = nreq + 1 /\ thr' = thr /\ last'.op = "get" /\ last'.hit)
    => /\ last'.id \in DOMAIN cache
       /\ cache' = cache

\* C12: every cache entry is written with the full CACHE_TIMEOUT, a hit does
\* not extend it, and an entry written at time T is absent from T +
\* CACHE_TIMEOUT on, so that a later getById of that id goes to the store.
C12_TtlExpiry == [](C12_Entries) /\ [][C12_Written /\ C12_Hit]_vars

C12_Witness ==
    /\ AllIdle
    /\ ~faulty
    /\ Ok(last, "create", 201)
    /\ last.id \in DOMAIN store
    /\ last.id \notin DOMAIN cache
    /\ now >= CACHE_TIMEOUT

\* ---- C13
\* C13: a request under which a call to the store or to the cache failed
\* ends with 500 'Database error'.
C13_FailureIsStoreError ==
    last.fault # "none" => (last.status = 500 /\ last.err = "Database error")

\* ---- C14
\* C14: every row of the table has a non-empty name, an email that passes
\* is_valid_email and an age greater than zero.
C14_DataModel ==
    \A i \in DOMAIN store :
        /\ store[i].name # ""
        /\ is_valid_email(store[i].email)
        /\ store[i].age > 0

\* ---- C15
\* this step is an update that ends at once with a validation error
C15_Rejected ==
    /\ nreq' = nreq + 1
    /\ thr' = thr
    /\ last'.op = "update"
    /\ last'.status = 400
    /\ last'.err \in {"Invalid email", "Age must be a positive integer"}

\* C15: an update rejected by validation leaves every row of the table,
\* the row it names included, and every cache entry as they were, also when
\* a valid field comes before the rejected one in the body.
C15_RejectedUpdateNoEffect ==
    [][C15_Rejected => (store' = store /\ cache' = cache)]_vars

C15_Witness ==
    /\ Ok(last, "update", 400)
    /\ last.err = "Age must be a positive integer"
    /\ last.body = Body(JStr(Xn), JStr(E2), JInt(0))
    /\ last.id \in DOMAIN store
    /\ store[last.id].name = Al
    /\ store[last.id].email = E1

\* ---- C16
\* the cache holds for id k a value other than the row of the table
Stale(k) ==
    /\ k \in DOMAIN cache
    /\ k \in DOMAIN store
    /\ JsonLoads(cache[k].val) # UserData(store[k])

\* a stale entry is within CACHE_TIMEOUT of the setex that wrote it
C16_StaleBounded ==
    \A k \in DOMAIN cache :
        Stale(k) => (now < cache[k].exp /\ cache[k].exp <= now + CACHE_TIMEOUT)

\* the step by which an update or a delete of an id returns 200 leaves no
\* entry for that id
C16_Invalidated ==
    \A w \in Threads :
        ((Leaves(w, "u_cache") \/ Leaves(w, "d_cache")) /\ last'.status = 200)
        => thr[w].id \notin DOMAIN cache'

\* C16: when requests interleave, a getById that missed may write the value
\* it read before an update committed; such a stale entry never outlives
\* its CACHE_TIMEOUT, and it is gone when the next update or delete of the
\* id returns 200.
C16_BoundedStaleness == [](C16_StaleBounded) /\ [][C16_Invalidated]_vars

\* both requests have ended without a failed call, the getById last, and
\* the entry it wrote is not the row the update committed
C16_Witness ==
    /\ AllIdle
    /\ ~faulty
    /\ Ok(last, "get", 200)
    /\ ~last.hit
    /\ Stale(last.id)

\* ---- C17
\* C17: when requests interleave and no call fails, once every request has
\* ended the cache holds no entry for an id that has no row, so that a
\* getById of a deleted id that starts after the delete returned 200 is not
\* answered from the cache.
C17_NoEntryForDeleted ==
    (AllIdle /\ ~faulty) => DOMAIN cache \subseteq DOMAIN store

\* ---- C18
\* this step starts a getById of id under which the cache does not fail
C18_StartsGet(id) ==
    /\ nreq' = nreq + 1
    /\ \/ thr' = thr /\ last'.op = "get" /\ last'.id = id
                     /\ last'.fault = "none"
       \/ \E w \in Threads :
              thr[w].pc = "idle" /\ thr'[w].op = "get" /\ thr'[w].id = id

C18_Hit ==
    \A id \in DOMAIN cache :
        C18_StartsGet(id)
        => /\ thr' = thr
           /\ Ok(last', "get", 200)
           /\ last'.hit
           /\ last'.out = JsonLoads(cache[id].val)
           /\ last'.touched = {"cache"}
           /\ store' = store
           /\ cache' = cache

\* C18: a getById of an id that has an unexpired cache entry returns the
\* decoded entry with 200 in one step, without reading the table, and
\* leaves the table and the cache, the entry's value and expiry included,
\* as they were.
C18_HitFastPath == [][C18_Hit]_vars

\* a hit one tick after the entry was written, the expiry still the one
\* the write gave it
C18_Witness ==
    /\ Ok(last, "get", 200)
    /\ last.hit
    /\ last.touched = {"cache"}
    /\ now = TickLen
    /\ cache[last.id].exp = CACHE_TIMEOUT

\* ---- C19
\* the entry of id k is the row of id k
Coherent(k) ==
    /\ k \in DOMAIN store
    /\ JsonLoads(cache[k].val) = UserData(store[k])

\* C19: with requests served one after another and no failed call, between
\* requests every cache entry is the current row of its id, and no entry
\* exists for an id that has no row.
C19_Coherence ==
    (AllIdle /\ ~faulty) => \A k \in DOMAIN cache : Coherent(k)

\* an updated row read back into the cache
C19_Witness ==
    /\ AllIdle
    /\ ~faulty
    /\ last.id \in DOMAIN cache
    /\ Coherent(last.id)
    /\ store[last.id].name = Xn

\* ---- C20
\* the response is the success of its operation
Succeeded(r) ==
    \/ Ok(r, "create", 201)
    \/ Ok(r, "update", 200)
    \/ Ok(r, "delete", 200)

\* thread w's create, update or delete ends in this step without success
C20_EndsFailed(w) ==
    /\ thr[w].pc # "idle"
    /\ thr'[w].pc = "idle"
    /\ thr[w].op \in {"create", "update", "delete"}
    /\ ~Succeeded(last')

\* the table is as the request found it: no row of a failed create, the
\* loaded row of a failed update or delete
C20_AsBefore(w) ==
    IF thr[w].op = "create"
    THEN thr[w].id \notin DOMAIN store'
    ELSE /\ thr[w].id \in DOMAIN store'
         /\ store'[thr[w].id] = thr[w].orig

\* C20: with requests served one after another, whenever a create, update
\* or delete ends without its success response, a failure of the cache call
\* after the commit included, the table is in the state it had before the
\* request.
C20_FailureLeavesStore ==
    [][\A w \in Threads : C20_EndsFailed(w) => C20_AsBefore(w)]_vars

====
